---- MODULE Spec2Model ----
(***************************************************************************)
(* Model of the EventRecognizer component                                  *)
(* (src/src/components/event-recognizer.tsx): the rate governor and the    *)
(* response parser in handleSubmit, the selection set kept by useEffect    *)
(* and handleCheckboxChange, and the calendar encoder generateICS.         *)
(*                                                                         *)
(* A JavaScript string is a sequence of pieces (one-character strings for  *)
(* the fields whose characters the code inspects, whole literals           *)
(* otherwise); concatenation is \o.  A JavaScript value is a record        *)
(* [type, str, num].  A response text is a sequence of JSON tokens.        *)
(***************************************************************************)
EXTENDS Integers, Sequences, FiniteSets

\* ------------------------------------------------------------ constants
MAX_REQUESTS_PER_MINUTE == 8
MAX_TEXT_LENGTH == 500
COOLDOWN_PERIOD == 60000

\* ------------------------------------------------------------ bounds
\* Largest number of elements in a response array.
MaxBatch == 2
\* Number of cooldown windows the clock runs through.
MaxWindows == 1

\* ------------------------------------------------------------ JS values
Undefined == [type |-> "undefined", str |-> <<>>, num |-> 0]
Null == [type |-> "null", str |-> <<>>, num |-> 0]
Str(s) == [type |-> "string", str |-> s, num |-> 0]
Num(n) == [type |-> "number", str |-> <<>>, num |-> n]

\* Truthiness, as in `if (event.recurrence)` and `if (result)`.
Truthy(v) ==
  CASE v.type = "string" -> v.str # <<>>
    [] v.type = "number" -> v.num # 0
    [] OTHER -> FALSE

DigitChars == <<"0", "1", "2", "3", "4", "5", "6", "7", "8", "9">>

RECURSIVE NumberToString(_)
\* Decimal digits of a non-negative integer, as a template literal prints it.
NumberToString(n) ==
  IF n < 10 THEN <<DigitChars[n + 1]>>
  ELSE NumberToString(n \div 10) \o <<DigitChars[(n % 10) + 1]>>

\* `${v}` in a template literal.
TemplateString(v) ==
  CASE v.type = "string" -> v.str
    [] v.type = "number" -> NumberToString(v.num)
    [] v.type = "null" -> <<"null">>
    [] OTHER -> <<"undefined">>

\* s.replace("c", ""), without the g flag: only the first c goes.
ReplaceFirst(s, c) ==
  LET found == SelectSeq([i \in 1..Len(s) |-> i], LAMBDA i : s[i] = c)
  IN IF found = <<>> THEN s
     ELSE SubSeq(s, 1, found[1] - 1) \o SubSeq(s, found[1] + 1, Len(s))

\* s.replace(/c/g, "") for a one-character pattern c.
ReplaceAll(s, c) == SelectSeq(s, LAMBDA p : p # c)

Min(a, b) == IF a < b THEN a ELSE b

\* s.substr(start, length), start counted from 0.
Substr(s, start, length) == SubSeq(s, start + 1, Min(Len(s), start + length))

\* ------------------------------------------------------------ Event
\* type Event: every property is a JS value, Undefined when absent.
NoFields ==
  [id |-> Undefined, title |-> Undefined, date |-> Undefined,
   time |-> Undefined, recurrence |-> Undefined, alarm |-> Undefined]

\* ------------------------------------------------------------ JSON text
\* A JSON value: an object with its properties, or a scalar.
JObject(f) == [kind |-> "object", fields |-> f]
JScalar(k) == [kind |-> k, fields |-> NoFields]

LBracket == [tok |-> "[", val |-> JScalar("null")]
RBracket == [tok |-> "]", val |-> JScalar("null")]
Comma == [tok |-> ",", val |-> JScalar("null")]
Fence == [tok |-> "fence", val |-> JScalar("null")]
Value(v) == [tok |-> "value", val |-> v]

SyntaxError == [ok |-> FALSE, isArray |-> FALSE, elems |-> <<>>]

RECURSIVE ParseElements(_)
\* The comma-separated values between the brackets of an array.
ParseElements(toks) ==
  IF toks = <<>> THEN SyntaxError
  ELSE IF toks[1].tok # "value" THEN SyntaxError
  ELSE IF Len(toks) = 1 THEN [ok |-> TRUE, isArray |-> TRUE, elems |-> <<toks[1].val>>]
  ELSE IF toks[2].tok # "," THEN SyntaxError
  ELSE LET rest == ParseElements(SubSeq(toks, 3, Len(toks)))
       IN IF rest.ok
          THEN [ok |-> TRUE, isArray |-> TRUE, elems |-> <<toks[1].val>> \o rest.elems]
          ELSE SyntaxError

\* A tolerant parse: whatever values the text holds, as an array.
JSONParseTolerant(toks) ==
  LET values == SelectSeq(toks, LAMBDA t : t.tok = "value")
  IN [ok |-> TRUE, isArray |-> TRUE, elems |-> [i \in 1..Len(values) |-> values[i].val]]

\* JSON.parse(result): the decoded value, or a SyntaxError.
JSONParse(toks) ==
  IF toks = <<>> THEN SyntaxError
  ELSE IF Len(toks) = 1
    THEN IF toks[1].tok = "value"
         THEN [ok |-> TRUE, isArray |-> FALSE, elems |-> <<>>]
         ELSE SyntaxError
  ELSE IF toks[1].tok = "[" /\ toks[Len(toks)].tok = "]"
    THEN IF Len(toks) = 2
         THEN [ok |-> TRUE, isArray |-> TRUE, elems |-> <<>>]
         ELSE ParseElements(SubSeq(toks, 2, Len(toks) - 1))
  ELSE SyntaxError

\* ------------------------------------------------------------ inputs
\* Values the completion service may put in a response array.
Date1 == <<"2", "0", "2", "4", "-", "0", "5", "-", "0", "1">>
Time1 == <<"0", "9", ":", "3", "0">>
Date2 == <<"2", "0", "2", "5", "-", "1", "2", "-", "3", "1">>
Time2 == <<"1", "8", ":", "0", "5">>

\* Recurring event with a 10 minute alarm.
Weekly ==
  JObject([id |-> Undefined, title |-> Str(<<"Standup">>), date |-> Str(Date1),
           time |-> Str(Time1),
           recurrence |-> Str(<<"FREQ=WEEKLY;BYDAY=MO,WE,FR">>), alarm |-> Num(10)])
\* Element that carries its own id, an empty recurrence and a 0 minute alarm.
WithId ==
  JObject([id |-> Str(<<"upstream">>), title |-> Str(<<"Lunch">>), date |-> Str(Date2),
           time |-> Str(Time2), recurrence |-> Str(<<>>), alarm |-> Num(0)])
\* Element with only the three required properties.
Plain ==
  JObject([id |-> Undefined, title |-> Str(<<"Dentist">>), date |-> Str(Date2),
           time |-> Str(Time1), recurrence |-> Undefined, alarm |-> Undefined])
\* Element whose optional properties are JSON null.
Nulls ==
  JObject([id |-> Undefined, title |-> Str(<<"Review">>), date |-> Str(Date1),
           time |-> Str(Time2), recurrence |-> Null, alarm |-> Null])
\* Element that is not an object.
Seven == JScalar("number")

ElementList == <<Weekly, WithId, Plain, Nulls, Seven>>

\* The n elements that follow position s of ElementList, cyclically.
Batch(s, n) ==
  [i \in 1..n |-> ElementList[((s + i - 2) % Len(ElementList)) + 1]]

Batches == {Batch(s, n) : s \in 1..Len(ElementList), n \in 0..MaxBatch}

RECURSIVE CommaSeparated(_)
CommaSeparated(elems) ==
  IF elems = <<>> THEN <<>>
  ELSE IF Len(elems) = 1 THEN <<Value(elems[1])>>
  ELSE <<Value(elems[1]), Comma>> \o CommaSeparated(Tail(elems))

\* The text of a JSON array of the given elements.
ArrayText(elems) == <<LBracket>> \o CommaSeparated(elems) \o <<RBracket>>

WellFormedTexts == {ArrayText(es) : es \in Batches}

\* Texts that are not a JSON array: a stream cut short, a trailing comma, an
\* array inside a markdown fence, a bare object and the text null.
MalformedTexts ==
  { <<LBracket, Value(Weekly)>>,
    <<LBracket, Value(Plain), Comma, RBracket>>,
    <<Fence>> \o ArrayText(<<Plain>>) \o <<Fence>>,
    <<Value(Plain)>>,
    <<Value(JScalar("null"))>> }

\* What `await complete(text)` resolves to: the accumulated text (possibly
\* empty), or undefined/null when the request failed or was aborted.
Results ==
  {Undefined} \cup {Str(t) : t \in {<<>>} \cup WellFormedTexts \cup MalformedTexts}

\* Math.random().toString(36): "0." followed by base-36 digits.  Two draws
\* of the generator; the map on line 76 may draw the same one twice.
RandomOutcomes == {<<"0", ".", "i">>, <<"0", ".", "9", "r">>}

\* The instants Date.now() is read at: the start of every cooldown window
\* and the millisecond before it.
Instants ==
  {w * COOLDOWN_PERIOD : w \in 0..MaxWindows}
    \cup {w * COOLDOWN_PERIOD - 1 : w \in 1..MaxWindows}

\* Lengths of the textarea's text.
TextLengths == {0, MAX_TEXT_LENGTH, MAX_TEXT_LENGTH + 1}

\* ------------------------------------------------------------ state
VARIABLES
  text,             \* useState(""): the textarea's text, as its length
  events,           \* useState<Event[]>([])
  checkedEvents,    \* useState<Set<string>>(new Set())
  requestCount,     \* useState(0)
  lastRequestTime,  \* useState(0)
  isLoading,        \* useCompletion: a complete() call has not resolved
  completion,       \* useCompletion: the text accumulated by the last call
  now,              \* what Date.now() returns
  closure,          \* what the handleSubmit that last called complete() captured
  op,               \* the handler step taken last and how it ended
  notice,           \* the toast raised by that step, "none" if it raised none
  observed          \* history: the upstream calls counted from a chosen call on

vars ==
  <<text, events, checkedEvents, requestCount, lastRequestTime, isLoading,
    completion, now, closure, op, notice, observed>>

NoClosure == [currentTime |-> 0, requestCount |-> 0]

\* No call has been chosen yet.
NotObserved == [on |-> FALSE, since |-> 0, calls |-> 0]

TextTooLong == "Text too long"
RateLimitExceeded == "Rate limit exceeded"
ParseError == "Error"

Init ==
  /\ text = 0
  /\ events = <<>>
  /\ checkedEvents = {}
  /\ requestCount = 0
  /\ lastRequestTime = 0
  /\ isLoading = FALSE
  /\ completion = <<>>
  /\ now = 0
  /\ closure = NoClosure
  /\ op = "init"
  /\ notice = "none"
  /\ observed = NotObserved

\* ------------------------------------------------------------ selection
\* events.map((event) => event.id), as the strings the Set holds.
EventIds(evs) == {evs[i].id.str : i \in 1..Len(evs)}

\* An effect that adds the new ids to the set it finds.
useEffectMerging(prev, evs) == prev \cup EventIds(evs)

\* The effect on [events]: runs after every render in which the events
\* array is a new array, whatever it contains, and replaces the set prev.
useEffect(prev, evs) == EventIds(evs)

\* An updater that only ever adds the id.
ToggleAddOnly(prev, id) == prev \cup {id}

\* handleCheckboxChange's updater: flip the membership of id.
ToggleSet(prev, id) == IF id \in prev THEN prev \ {id} ELSE prev \cup {id}

\* ------------------------------------------------------------ governor
\* The length check written with >= : a text of exactly MAX_TEXT_LENGTH
\* characters is rejected.
TooLongInclusive(t) == t >= MAX_TEXT_LENGTH

\* Line 49: the length check.
TooLong(t) == t > MAX_TEXT_LENGTH

\* The cooldown test written with <= : the submit made exactly
\* COOLDOWN_PERIOD after the last request is still denied.
RateLimitedInclusive(count, last, currentTime) ==
  count >= MAX_REQUESTS_PER_MINUTE /\ currentTime - last <= COOLDOWN_PERIOD

\* Lines 58-59: the limit is reached and the cooldown has not elapsed.
RateLimited(count, last, currentTime) ==
  count >= MAX_REQUESTS_PER_MINUTE /\ currentTime - last < COOLDOWN_PERIOD

\* Lines 49-70: how handleSubmit ends before it would call complete().
SubmitOutcome(t, count, last, currentTime) ==
  IF TooLong(t) THEN "tooLong"
  ELSE IF RateLimited(count, last, currentTime) THEN "denied"
  ELSE "admitted"

\* handleSubmit without its setRequestCount(0).
CountNeverReset(outcome, count) == count

\* setRequestCount(0) hoisted above the cooldown test: a denied submit
\* resets the count too.
CountResetOnDenial(outcome, count) ==
  IF outcome # "tooLong" /\ count >= MAX_REQUESTS_PER_MINUTE THEN 0 ELSE count

\* Lines 58, 66-69: setRequestCount(0) runs only on the path that goes on
\* to complete(), when the limit had been reached.
CountAfterSubmit(outcome, count) ==
  IF outcome = "admitted" /\ count >= MAX_REQUESTS_PER_MINUTE THEN 0 ELSE count

\* Lines 50-54 and 60-64: the toast of each early return.
SubmitNotice(outcome) ==
  CASE outcome = "tooLong" -> TextTooLong
    [] outcome = "denied" -> RateLimitExceeded
    [] OTHER -> "none"

\* Line 85: the updater (prevCount) => prevCount + 1.
Increment(prevCount) == prevCount + 1

\* ------------------------------------------------------------ parser
\* { id, ...event }: the id first, so an element's own id overwrites it.
SpreadIdFirst(elem, id) ==
  IF elem.kind = "object"
  THEN IF elem.fields.id # Undefined THEN elem.fields ELSE [elem.fields EXCEPT !.id = id]
  ELSE [NoFields EXCEPT !.id = id]

\* { ...event, id }: the element's own properties, then the id.
Spread(elem, id) ==
  IF elem.kind = "object" THEN [elem.fields EXCEPT !.id = id]
  ELSE [NoFields EXCEPT !.id = id]

\* Line 78: Math.random().toString(36).substr(2, 9) for one draw.
GeneratedId(random) == Str(Substr(random, 2, 9))

\* Lines 76-79: parsedEvents.map(...), randoms[i] being the i-th draw.
eventsWithIds(parsedEvents, randoms) ==
  [i \in 1..Len(parsedEvents) |-> Spread(parsedEvents[i], GeneratedId(randoms[i]))]

\* ------------------------------------------------------------ encoder
NL == "\n"

Header ==
  <<"BEGIN:VCALENDAR", NL, "VERSION:2.0", NL,
    "PRODID:-//hacksw/handcal//NONSGML v1.0//EN", NL>>

Footer == <<"END:VCALENDAR">>

\* Lines 116-119 call replace on event.date and event.time: a TypeError
\* unless both are strings.
Throws(event) == event.date.type # "string" \/ event.time.type # "string"

\* The recurrence tested like the alarm, against undefined.
RRuleLinesIfDefined(event) ==
  IF event.recurrence # Undefined
  THEN <<"RRULE:">> \o TemplateString(event.recurrence) \o <<NL>>
  ELSE <<>>

\* Lines 120-122.
RRuleLines(event) ==
  IF Truthy(event.recurrence)
  THEN <<"RRULE:">> \o TemplateString(event.recurrence) \o <<NL>>
  ELSE <<>>

\* Lines 123-128.
VAlarmLines(event) ==
  IF event.alarm # Undefined
  THEN <<"BEGIN:VALARM", NL, "ACTION:DISPLAY", NL, "TRIGGER:-PT">>
         \o TemplateString(event.alarm) \o <<"M", NL, "END:VALARM", NL>>
  ELSE <<>>

\* Lines 114-129: what one checked event appends to icsContent.
VEvent(event) ==
  <<"BEGIN:VEVENT", NL, "SUMMARY:">> \o TemplateString(event.title) \o <<NL>>
    \o <<"DTSTART:">> \o ReplaceAll(event.date.str, "-") \o <<"T">>
    \o ReplaceAll(event.time.str, ":") \o <<"00", NL>>
    \o RRuleLines(event)
    \o VAlarmLines(event)
    \o <<"END:VEVENT", NL>>

\* Line 113.
Included(event, checked) == event.id.str \in checked

RECURSIVE ForEach(_, _, _, _)
\* Lines 112-131: events.forEach from position i on, icsContent so far.
ForEach(evs, checked, i, icsContent) ==
  IF i > Len(evs) THEN [threw |-> FALSE, content |-> icsContent]
  ELSE IF ~Included(evs[i], checked) THEN ForEach(evs, checked, i + 1, icsContent)
  ELSE IF Throws(evs[i]) THEN [threw |-> TRUE, content |-> <<>>]
  ELSE ForEach(evs, checked, i + 1, icsContent \o VEvent(evs[i]))

\* Lines 109-134; checked is the checkedEvents the function closes over.
generateICS(evs, checked) ==
  LET body == ForEach(evs, checked, 1, Header)
  IN IF body.threw THEN body
     ELSE [threw |-> FALSE, content |-> body.content \o Footer]

\* ------------------------------------------------------------ actions
\* The textarea's onChange.
SetText ==
  /\ \E n \in TextLengths \ {text} : text' = n
  /\ op' = "idle"
  /\ notice' = "none"
  /\ UNCHANGED <<observed, events, checkedEvents, requestCount, lastRequestTime, isLoading,
                 completion, now, closure>>

\* Time passes.
Tick ==
  /\ \E t \in Instants : t > now /\ now' = t
  /\ op' = "idle"
  /\ notice' = "none"
  /\ UNCHANGED <<observed, text, events, checkedEvents, requestCount, lastRequestTime,
                 isLoading, completion, closure>>

\* The history of upstream calls after a handleSubmit: a call issued less
\* than COOLDOWN_PERIOD after the chosen one is counted (up to one more than
\* the limit).
Counted(obs, outcome, currentTime) ==
  IF obs.on /\ outcome = "admitted" /\ currentTime - obs.since < COOLDOWN_PERIOD
  THEN [obs EXCEPT !.calls = Min(@ + 1, MAX_REQUESTS_PER_MINUTE + 1)]
  ELSE obs

\* The submit button without its disabled attribute.
SubmitAlwaysEnabled(loading) == FALSE

\* Line 175: disabled={isLoading}.  The button is the only caller of
\* handleSubmit.
SubmitDisabled(loading) == loading

\* handleSubmit up to `await complete(text)` (lines 46-73).  complete()
\* starts from an empty completion.
HandleSubmit ==
  /\ ~SubmitDisabled(isLoading)
  /\ LET currentTime == now
         outcome == SubmitOutcome(text, requestCount, lastRequestTime, currentTime)
     IN /\ requestCount' = CountAfterSubmit(outcome, requestCount)
        /\ isLoading' = (outcome = "admitted")
        /\ completion' = IF outcome = "admitted" THEN <<>> ELSE completion
        /\ closure' = IF outcome = "admitted"
                      THEN [currentTime |-> currentTime, requestCount |-> requestCount]
                      ELSE closure
        /\ op' = outcome
        /\ notice' = SubmitNotice(outcome)
        /\ observed' = Counted(observed, outcome, currentTime)
  /\ UNCHANGED <<text, events, checkedEvents, lastRequestTime, now>>

\* handleSubmit from the point complete() resolves (lines 73-94), with the
\* render and the effect on [events] that follow.
CompleteResolves(result, randoms) ==
  /\ isLoading
  /\ isLoading' = FALSE
  /\ completion' = result.str
  /\ IF Truthy(result)
     THEN LET parsed == JSONParse(result.str)
          IN IF parsed.ok /\ parsed.isArray
             THEN /\ events' = eventsWithIds(parsed.elems, randoms)
                  /\ checkedEvents' = useEffect(checkedEvents, events')
                  /\ requestCount' = Increment(requestCount)
                  /\ lastRequestTime' = closure.currentTime
                  /\ op' = "parsed"
                  /\ notice' = "none"
             ELSE /\ op' = "failed"
                  /\ notice' = ParseError
                  /\ UNCHANGED <<events, checkedEvents, requestCount, lastRequestTime>>
     ELSE /\ requestCount' = Increment(requestCount)
          /\ lastRequestTime' = closure.currentTime
          /\ op' = "empty"
          /\ notice' = "none"
          /\ UNCHANGED <<events, checkedEvents>>
  /\ UNCHANGED <<text, now, closure, observed>>

\* The number of elements the map on line 76 visits, one draw each.
Draws(result) == IF Truthy(result) THEN Len(JSONParse(result.str).elems) ELSE 0

\* complete() resolves to one of the given results.
Complete(results) ==
  \E result \in results :
    \E randoms \in [1..Draws(result) -> RandomOutcomes] :
      CompleteResolves(result, randoms)

\* A click on the checkbox of a displayed event.
HandleCheckboxChange ==
  /\ \E i \in 1..Len(events) : checkedEvents' = ToggleSet(checkedEvents, events[i].id.str)
  /\ op' = "toggle"
  /\ notice' = "none"
  /\ UNCHANGED <<observed, text, events, requestCount, lastRequestTime, isLoading, completion,
                 now, closure>>

\* The call just issued is chosen as the first of the calls to count.
Observe ==
  /\ op = "admitted"
  /\ ~observed.on
  /\ observed' = [on |-> TRUE, since |-> closure.currentTime, calls |-> 1]
  /\ UNCHANGED <<text, events, checkedEvents, requestCount, lastRequestTime,
                 isLoading, completion, now, closure, op, notice>>

\* The download button disabled whatever the selection.
DownloadAlwaysDisabled(size) == TRUE

\* Line 222: disabled={checkedEvents.size === 0}.
DownloadDisabled(size) == size = 0

\* A click on the download button, rendered when there are events and
\* enabled when some are checked.
DownloadICS ==
  /\ Len(events) > 0
  /\ ~DownloadDisabled(Cardinality(checkedEvents))
  /\ op' = "download"
  /\ notice' = "none"
  /\ UNCHANGED <<observed, text, events, checkedEvents, requestCount, lastRequestTime,
                 isLoading, completion, now, closure>>

Next ==
  \/ SetText
  \/ Tick
  \/ HandleSubmit
  \/ Complete(Results)
  \/ HandleCheckboxChange
  \/ DownloadICS

Spec == Init /\ [][Next]_vars

\* Every handler, with one response of each kind: the governor does not
\* read the response beyond whether it parses.
GovernorResults ==
  { Undefined, Str(<<>>), Str(<<LBracket, Value(Weekly)>>), Str(<<Value(Plain)>>),
    Str(ArrayText(<<>>)), Str(ArrayText(<<Plain>>)), Str(ArrayText(<<Plain, Nulls>>)) }

NextGovernor ==
  \/ SetText
  \/ Tick
  \/ HandleSubmit
  \/ Complete(GovernorResults)
  \/ HandleCheckboxChange
  \/ DownloadICS

SpecGovernor == Init /\ [][NextGovernor]_vars

\* Every response, in a session in which the text stays short and the clock
\* is not read again: the parser, the selection and the encoder read neither.
NextData ==
  \/ HandleSubmit
  \/ Complete(Results)
  \/ HandleCheckboxChange
  \/ DownloadICS

SpecData == Init /\ [][NextData]_vars

\* The three kinds of outcome of a call: parsed, empty, malformed.
RateResults == {Str(ArrayText(<<Plain>>)), Str(<<>>), Str(<<LBracket, Value(Plain)>>)}

\* Submits, call outcomes and time, with the calls counted from any one of
\* them on.
NextRate ==
  \/ Tick
  \/ HandleSubmit
  \/ Complete(RateResults)
  \/ Observe

SpecRate == Init /\ [][NextRate]_vars

\* ------------------------------------------------------------ claims
\* A step of handleSubmit up to complete(): the only steps that end in one
\* of these three outcomes.
SubmitStep == op' \in {"tooLong", "denied", "admitted"}

\* A step in which complete() resolves and handleSubmit runs to its end.
ResolveStep == op' \in {"parsed", "empty", "failed"}

\* C1: once requestCount has reached MAX_REQUESTS_PER_MINUTE, a handleSubmit
\* that gets to the governor at a time t with t - lastRequestTime <
\* COOLDOWN_PERIOD is denied with the rate-limit notice and calls nothing; one
\* with t - lastRequestTime >= COOLDOWN_PERIOD is admitted, and when that call
\* has completed successfully requestCount is 1.
C1_ThrottleAndReopen ==
  [][ /\ ( /\ SubmitStep
           /\ ~TooLong(text)
           /\ requestCount >= MAX_REQUESTS_PER_MINUTE
           /\ now - lastRequestTime < COOLDOWN_PERIOD )
         => (op' = "denied" /\ notice' = RateLimitExceeded /\ ~isLoading')
      /\ ( /\ SubmitStep
           /\ ~TooLong(text)
           /\ requestCount >= MAX_REQUESTS_PER_MINUTE
           /\ now - lastRequestTime >= COOLDOWN_PERIOD )
         => (op' = "admitted" /\ isLoading' /\ closure'.currentTime = now)
      /\ (op' = "parsed" /\ closure.requestCount >= MAX_REQUESTS_PER_MINUTE)
         => requestCount' = 1
    ]_vars

\* The call admitted at the limit, after the cooldown, has completed
\* successfully.
C1_Witness ==
  /\ op = "parsed"
  /\ closure.requestCount = MAX_REQUESTS_PER_MINUTE
  /\ closure.currentTime >= COOLDOWN_PERIOD
  /\ requestCount = 1

\* C2: a denied handleSubmit leaves requestCount, lastRequestTime, events and
\* the selection set as they were and makes no upstream call, so the time at
\* which the governor reopens, lastRequestTime + COOLDOWN_PERIOD, does not
\* move however many submits are denied.
C2_DeniedChangesNothing ==
  [][ op' = "denied" =>
        /\ UNCHANGED <<requestCount, lastRequestTime, events, checkedEvents>>
        /\ UNCHANGED <<isLoading, completion, closure>>
        /\ ~isLoading'
        /\ requestCount' >= MAX_REQUESTS_PER_MINUTE
        /\ now' - lastRequestTime' < COOLDOWN_PERIOD
    ]_vars

\* A submit was denied at an instant later than the last counted request,
\* with a list on display.
C2_Witness ==
  /\ op = "denied"
  /\ notice = RateLimitExceeded
  /\ requestCount = MAX_REQUESTS_PER_MINUTE
  /\ now > lastRequestTime
  /\ Len(events) > 0

\* C3: every admitted call, when it resolves, has incremented requestCount by
\* exactly one and set lastRequestTime to the time of its submit, whether the
\* response parsed, was empty or was malformed.
C3_AdmittedCallCounted ==
  [][ ResolveStep =>
        /\ requestCount' = requestCount + 1
        /\ lastRequestTime' = closure.currentTime
    ]_vars

\* The ids the generator can produce: the characters of a draw after "0.".
GeneratedIds == {Str(SubSeq(r, 3, Len(r))) : r \in RandomOutcomes}

\* C4: for a response that is a well-formed JSON array of N elements, the
\* parse step replaces events with exactly N Events in the array's order; each
\* Event made from an object carries that object's title, date, time,
\* recurrence and alarm unchanged, and its id is a locally generated one, also
\* when the object has an id.
C4_ParseCopiesThrough ==
  [][ \A batch \in Batches :
        (ResolveStep /\ completion' = ArrayText(batch)) =>
          /\ op' = "parsed"
          /\ Len(events') = Len(batch)
          /\ \A i \in 1..Len(batch) :
               /\ events'[i].id \in GeneratedIds
               /\ events'[i].id # batch[i].fields.id
               /\ batch[i].kind = "object" =>
                    /\ events'[i].title = batch[i].fields.title
                    /\ events'[i].date = batch[i].fields.date
                    /\ events'[i].time = batch[i].fields.time
                    /\ events'[i].recurrence = batch[i].fields.recurrence
                    /\ events'[i].alarm = batch[i].fields.alarm
    ]_vars

\* A batch of two was parsed, one of them the element that came with its own
\* id, which the Event does not carry.
C4_Witness ==
  /\ op = "parsed"
  /\ Len(events) = 2
  /\ \E i \in 1..Len(events) :
       /\ events[i].title = WithId.fields.title
       /\ events[i].alarm = WithId.fields.alarm
       /\ events[i].id # WithId.fields.id

\* C5: the ids of the Events of one batch are pairwise distinct, whatever the
\* batch size and whatever the id generator draws.
C5_IdsPairwiseDistinct ==
  \A i, j \in 1..Len(events) : i # j => events[i].id # events[j].id

\* C6: a response text that is not valid JSON, or that decodes to something
\* other than an array, fails as a whole: the error notice is raised and
\* events and the selection set keep the values they had before the submit.
C6_MalformedKeepsList ==
  [][ /\ (ResolveStep /\ completion' \in MalformedTexts) =>
           /\ op' = "failed"
           /\ notice' = ParseError
           /\ UNCHANGED <<events, checkedEvents>>
      /\ op' = "failed" => UNCHANGED <<events, checkedEvents>>
    ]_vars

\* A parse failed while a list with a toggled selection was on display.
C6_Witness ==
  /\ op = "failed"
  /\ Len(events) = 2
  /\ checkedEvents # EventIds(events)
  /\ checkedEvents # {}

\* C7: whenever a new extraction result replaces events, also one with no
\* events or with the content of the previous one, the selection set becomes
\* exactly the set of the new events' ids; events is replaced by nothing else.
C7_SelectionResetOnReplace ==
  [][ /\ op' = "parsed" => checkedEvents' = EventIds(events')
      /\ events' # events => op' = "parsed"
    ]_vars

\* An empty result has replaced an earlier result.
C7_Witness ==
  /\ op = "parsed"
  /\ events = <<>>
  /\ checkedEvents = {}
  /\ requestCount >= 2

\* ---- reading a calendar document back
\* The lines of a text: its pieces between the line feeds.
LinesOf(content) ==
  LET n == Len(content)
      feeds == SelectSeq([i \in 1..n |-> i], LAMBDA i : content[i] = NL)
      m == Len(feeds)
  IN [k \in 1..(m + 1) |->
        SubSeq(content,
               IF k = 1 THEN 1 ELSE feeds[k - 1] + 1,
               IF k = m + 1 THEN n ELSE feeds[k] - 1)]

\* The positions of the lines equal to line, in order.
Positions(lines, line) ==
  SelectSeq([i \in 1..Len(lines) |-> i], LAMBDA i : lines[i] = line)

\* The k-th BEGIN:VEVENT ... END:VEVENT block of the lines.
Block(lines, k) ==
  SubSeq(lines, Positions(lines, <<"BEGIN:VEVENT">>)[k],
         Positions(lines, <<"END:VEVENT">>)[k])

\* The lines of a block that start with the given piece.
LinesStarting(block, prefix) ==
  SelectSeq(block, LAMBDA l : l # <<>> /\ l[1] = prefix)

\* The document the download that has just run was given.
Document == generateICS(events, checkedEvents)

\* The events whose id is in the selection set, in the order of events.
Selected == SelectSeq(events, LAMBDA e : e.id.str \in checkedEvents)

HeaderLines ==
  << <<"BEGIN:VCALENDAR">>, <<"VERSION:2.0">>,
     <<"PRODID:-//hacksw/handcal//NONSGML v1.0//EN">> >>

\* C8: the document generateICS returns is the three header lines, one VEVENT
\* block for each event whose id is in the selection set and for no other, in
\* the order of events, and the END:VCALENDAR line; the number of blocks is
\* the number of ids of events that are in the selection set.  (Stated for
\* the downloads in which generateICS returns.)
C8_EncodeSelected ==
  (op = "download" /\ ~Document.threw) =>
    LET lines == LinesOf(Document.content)
        begins == Positions(lines, <<"BEGIN:VEVENT">>)
        ends == Positions(lines, <<"END:VEVENT">>)
    IN /\ SubSeq(lines, 1, 3) = HeaderLines
       /\ lines[Len(lines)] = <<"END:VCALENDAR">>
       /\ Len(begins) = Len(Selected)
       /\ Len(ends) = Len(Selected)
       /\ \A k \in 1..Len(Selected) :
            Block(lines, k)[2] = <<"SUMMARY:">> \o Selected[k].title.str
       /\ Len(begins) = Cardinality(checkedEvents \cap EventIds(events))

\* C9: the VEVENT block of an emitted event holds a VALARM block exactly when
\* the event has an alarm value, a number of minutes (0 included); an event
\* parsed without alarm, or with alarm null, gets none.
C9_AlarmIffValue ==
  (op = "download" /\ ~Document.threw) =>
    LET lines == LinesOf(Document.content)
    IN \A k \in 1..Len(Selected) :
         LET block == Block(lines, k)
             hasAlarm == Selected[k].alarm.type = "number"
         IN /\ (Positions(block, <<"BEGIN:VALARM">>) # <<>>) <=> hasAlarm
            /\ hasAlarm =>
                 /\ Len(Positions(block, <<"ACTION:DISPLAY">>)) = 1
                 /\ LinesStarting(block, "TRIGGER:-PT") =
                      << <<"TRIGGER:-PT">> \o NumberToString(Selected[k].alarm.num)
                           \o <<"M">> >>

\* The block's RRULE lines are the one line RRULE:<recurrence> if present is
\* true and none otherwise.
RRuleAsExpected(block, event, present) ==
  LinesStarting(block, "RRULE:") =
    IF present THEN << <<"RRULE:">> \o event.recurrence.str >> ELSE <<>>

\* C10 as claimed: the VEVENT block of an emitted event holds exactly one line
\* RRULE:<recurrence>, the string verbatim, if the event's recurrence is
\* present, the empty string included, and no RRULE line otherwise.
C10_RRuleIffPresent ==
  (op = "download" /\ ~Document.threw) =>
    LET lines == LinesOf(Document.content)
    IN \A k \in 1..Len(Selected) :
         RRuleAsExpected(Block(lines, k), Selected[k],
                         Selected[k].recurrence.type = "string")

\* C10 as amended: the VEVENT block of an emitted event holds exactly one line
\* RRULE:<recurrence>, the string verbatim, if the event's recurrence is
\* truthy (a non-empty string), and no RRULE line if it is absent, null or
\* the empty string.
C10_RRuleIffNonEmpty ==
  (op = "download" /\ ~Document.threw) =>
    LET lines == LinesOf(Document.content)
    IN \A k \in 1..Len(Selected) :
         RRuleAsExpected(Block(lines, k), Selected[k],
                         /\ Selected[k].recurrence.type = "string"
                         /\ Selected[k].recurrence.str # <<>>)

\* A document was generated for two events, one recurring and one with the
\* empty recurrence.
C10_Witness ==
  /\ op = "download"
  /\ ~Document.threw
  /\ Len(Selected) = 2
  /\ Selected[1].recurrence = Weekly.fields.recurrence
  /\ Selected[2].recurrence = Str(<<>>)

\* ---- C11
IsDigits(s) == \A i \in 1..Len(s) : \E d \in 1..Len(DigitChars) : s[i] = DigitChars[d]

\* YYYY-MM-DD
DateShape(d) ==
  /\ Len(d) = 10
  /\ d[5] = "-" /\ d[8] = "-"
  /\ IsDigits(SubSeq(d, 1, 4) \o SubSeq(d, 6, 7) \o SubSeq(d, 9, 10))

\* HH:MM
TimeShape(t) ==
  /\ Len(t) = 5
  /\ t[3] = ":"
  /\ IsDigits(SubSeq(t, 1, 2) \o SubSeq(t, 4, 5))

\* The value of a DTSTART line split at its T, with the separators put back:
\* the date and the time it stands for.
Reparse(value) ==
  LET at == SelectSeq([i \in 1..Len(value) |-> i], LAMBDA i : value[i] = "T")[1]
      d == SubSeq(value, 1, at - 1)
      t == SubSeq(value, at + 1, Len(value))
  IN [date |-> SubSeq(d, 1, 4) \o <<"-">> \o SubSeq(d, 5, 6) \o <<"-">> \o SubSeq(d, 7, Len(d)),
      time |-> SubSeq(t, 1, 2) \o <<":">> \o SubSeq(t, 3, 4),
      seconds |-> SubSeq(t, 5, Len(t))]

\* C11: for an emitted event whose date has the shape YYYY-MM-DD and whose
\* time has the shape HH:MM, the block has the one line
\* DTSTART:<YYYYMMDD>T<HHMM>00, and splitting its value at the T and putting
\* the separators back gives the event's date and time again.
C11_DtStartRoundTrip ==
  (op = "download" /\ ~Document.threw) =>
    LET lines == LinesOf(Document.content)
    IN \A k \in 1..Len(Selected) :
         LET event == Selected[k]
             starts == LinesStarting(Block(lines, k), "DTSTART:")
         IN (DateShape(event.date.str) /\ TimeShape(event.time.str)) =>
              /\ Len(starts) = 1
              /\ LET value == Tail(starts[1])
                 IN /\ Len(value) = 14
                    /\ IsDigits(SubSeq(value, 1, 8))
                    /\ value[9] = "T"
                    /\ IsDigits(SubSeq(value, 10, 13))
                    /\ Reparse(value) =
                         [date |-> event.date.str, time |-> event.time.str,
                          seconds |-> <<"00">>]

\* A document was generated for two events that differ in date and in time.
C11_Witness ==
  /\ op = "download"
  /\ ~Document.threw
  /\ Len(Selected) = 2
  /\ Selected[1].date.str = Date1 /\ Selected[1].time.str = Time1
  /\ Selected[2].date.str = Date2 /\ Selected[2].time.str = Time2

\* ---- C12
\* Open, or throttled with the window still running, or throttled with the
\* window elapsed.
GovernorState ==
  IF requestCount < MAX_REQUESTS_PER_MINUTE THEN "open"
  ELSE IF now - lastRequestTime < COOLDOWN_PERIOD THEN "throttled"
  ELSE "elapsed"

\* C12: the length check comes before the governor.  In every governor state
\* a handleSubmit with more than MAX_TEXT_LENGTH characters ends with the
\* too-long notice, issues no upstream call and leaves requestCount,
\* lastRequestTime, events and the selection set as they were; a text of
\* exactly MAX_TEXT_LENGTH characters is not rejected by the length check.
C12_LengthCheckFirst ==
  [][SubmitStep =>
       /\ text > MAX_TEXT_LENGTH =>
            /\ op' = "tooLong"
            /\ notice' = TextTooLong
            /\ ~isLoading'
            /\ UNCHANGED <<requestCount, lastRequestTime, events, checkedEvents,
                           completion, closure>>
       /\ text = MAX_TEXT_LENGTH =>
            /\ op' # "tooLong"
            /\ notice' # TextTooLong]_vars

\* A too-long text was rejected with the limit reached and the window
\* elapsed (the count was not reset), after results had been displayed.
C12_Witness ==
  /\ op = "tooLong"
  /\ notice = TextTooLong
  /\ GovernorState = "elapsed"
  /\ Len(events) > 0

\* A text of exactly MAX_TEXT_LENGTH characters went on to the governor and
\* was denied there.
C12_WitnessAtLimit ==
  /\ op = "denied"
  /\ text = MAX_TEXT_LENGTH
  /\ GovernorState = "throttled"

\* ---- C13
\* C13: at most one extraction call is in flight.  While the call issued by
\* a handleSubmit has not resolved the submit button is disabled and no
\* handleSubmit starts; the captured values of the flow in flight stay, and
\* requestCount, lastRequestTime and events change only in the step in which
\* that call resolves.
C13_OneCallInFlight ==
  [][isLoading =>
       /\ SubmitDisabled(isLoading)
       /\ ~SubmitStep
       /\ closure' = closure
       /\ (<<requestCount, lastRequestTime, events>>' # <<requestCount, lastRequestTime, events>>
             => ResolveStep /\ ~isLoading')]_vars

\* A call is in flight, issued after earlier calls were counted, and has
\* been for a while: the clock has moved on since it was submitted.
C13_Witness ==
  /\ isLoading
  /\ closure.requestCount > 0
  /\ now > closure.currentTime

\* ---- C14
\* C14: an admitted call whose response text is not a JSON array, the empty
\* and the absent response included, ends with an error notice shown to the
\* user, and the component is idle again so that a new submit is possible.
C14_BadResponseNoticed ==
  [][(ResolveStep /\ op' # "parsed") =>
       /\ notice' = ParseError
       /\ ~isLoading'
       /\ ~SubmitDisabled(isLoading')]_vars

\* ---- C15
\* C15: any batch the parser accepts can be encoded.  For events built from
\* whatever JSON array was parsed, generateICS returns a document: the
\* header, one BEGIN:VEVENT ... END:VEVENT block per selected event, the
\* footer.
C15_AcceptedBatchEncodes ==
  op = "download" =>
    /\ ~Document.threw
    /\ LET lines == LinesOf(Document.content)
       IN /\ Len(lines) >= Len(HeaderLines) + 1
          /\ SubSeq(lines, 1, Len(HeaderLines)) = HeaderLines
          /\ lines[Len(lines)] = <<"END:VCALENDAR">>
          /\ Len(Positions(lines, <<"BEGIN:VEVENT">>)) = Len(Selected)
          /\ Len(Positions(lines, <<"END:VEVENT">>)) = Len(Selected)

\* ---- C16
\* C16 as stated: the selection set is discarded when an admitted
\* handleSubmit issues its upstream call, and until the call resolves the
\* previous selection is neither toggled nor exported.
C16_SelectionDiscardedAtStart ==
  [][/\ op' = "admitted" => checkedEvents' = {}
     /\ isLoading => op' \notin {"toggle", "download"}]_vars

\* C16, amended: the selection set is kept when a new extraction starts.
\* An admitted handleSubmit leaves events and the selection set as they
\* are; while the call is unresolved the list stays, the selection changes
\* only by a toggle, every displayed event can be toggled and a non-empty
\* selection can be exported; the selection is replaced only in the step in
\* which a parsed result replaces events.
C16_SelectionKeptWhileLoading ==
  /\ [](isLoading /\ Len(events) > 0 =>
          /\ ENABLED HandleCheckboxChange
          /\ checkedEvents # {} => ENABLED DownloadICS)
  /\ [][/\ op' = "admitted" => UNCHANGED <<events, checkedEvents>>
        /\ (isLoading /\ isLoading') =>
             /\ events' = events
             /\ checkedEvents' # checkedEvents => op' = "toggle"
        /\ (ResolveStep /\ op' # "parsed") => UNCHANGED <<events, checkedEvents>>
        /\ (ResolveStep /\ op' = "parsed") => checkedEvents' = EventIds(events')]_vars

\* While a call is unresolved, a selection that is not the one the effect
\* made has just been exported.
C16_Witness ==
  /\ isLoading
  /\ op = "download"
  /\ checkedEvents # {}
  /\ checkedEvents # EventIds(events)

\* ---- C17
\* C17: between two result replacements only toggles change the selection
\* set.  handleCheckboxChange(id) flips the membership of that id and of no
\* other, so that toggling the same id again restores the set; a denied
\* submit, a too-long submit, an admitted submit, an empty or malformed
\* response, a download, a change of the text and the passing of time leave
\* the selection set as it is.
C17_OnlyTogglesMutate ==
  [][/\ op' = "toggle" =>
          \E i \in 1..Len(events) :
            LET id == events[i].id.str
            IN /\ (id \in checkedEvents') <=> (id \notin checkedEvents)
               /\ \A other \in (checkedEvents \cup checkedEvents' \cup EventIds(events)) \ {id} :
                    (other \in checkedEvents') <=> (other \in checkedEvents)
               /\ ToggleSet(checkedEvents', id) = checkedEvents
               /\ events' = events
     /\ op' \notin {"toggle", "parsed"} => checkedEvents' = checkedEvents]_vars

\* One of two displayed events has just been unchecked, the other is still
\* checked.
C17_Witness ==
  /\ op = "toggle"
  /\ Len(events) = 2
  /\ Cardinality(EventIds(events)) = 2
  /\ Cardinality(checkedEvents) = 1

\* ---- C18
\* C18: in every reachable state 0 <= requestCount <=
\* MAX_REQUESTS_PER_MINUTE, whatever the submits, denials, call outcomes and
\* advances of time.
C18_CountWithinLimit ==
  /\ requestCount \in Nat
  /\ requestCount <= MAX_REQUESTS_PER_MINUTE

\* The limit has been reached a second time: after the window had elapsed
\* the count was reset, and counted calls filled it again.
C18_Witness ==
  /\ requestCount = MAX_REQUESTS_PER_MINUTE
  /\ lastRequestTime >= COOLDOWN_PERIOD
  /\ op \in {"parsed", "empty"}

\* ---- C19
\* C19: the governor bounds the rate of upstream calls.  Counting from any
\* upstream call, at most MAX_REQUESTS_PER_MINUTE calls (that one included)
\* are issued with submit times less than COOLDOWN_PERIOD after its own,
\* whatever the outcomes of the calls.
C19_CallRateBounded == observed.on => observed.calls <= MAX_REQUESTS_PER_MINUTE

\* ---- C20
\* The ids of the displayed events are pairwise distinct.
DistinctIds == Cardinality(EventIds(events)) = Len(events)

\* C20: in every state in which the user can act, the selection set is a
\* subset of the ids of the current events: no id of an earlier batch stays
\* in it.  So, with distinct ids, the count the download button shows is the
\* number of VEVENT blocks in the document generateICS returns.
C20_SelectionWithinEvents ==
  /\ checkedEvents \subseteq EventIds(events)
  /\ (DistinctIds /\ ~Document.threw) =>
       Len(Positions(LinesOf(Document.content), <<"BEGIN:VEVENT">>))
         = Cardinality(checkedEvents)

\* A later batch has replaced an earlier one, one of its two events has been
\* unchecked and the remaining one exported.
C20_Witness ==
  /\ op = "download"
  /\ requestCount >= 2
  /\ Len(events) = 2
  /\ DistinctIds
  /\ Cardinality(checkedEvents) = 1
  /\ ~Document.threw

====
